---- MODULE Spec2Model ----
(***************************************************************************)
(* Lifespan management of robyn-ml-api (src/app/core/lifespan.py): the     *)
(* State registry, the BaseEvent classes and the Lifespan manager with its *)
(* _startup and _shutdown coroutines.                                      *)
(*                                                                         *)
(* A coroutine is modelled by the points where it can be suspended: the    *)
(* only awaits of _startup and _shutdown are `await event.startup()` and   *)
(* `await event.shutdown(instance)`, so one action runs the code from one  *)
(* await to the next.                                                      *)
(*                                                                         *)
(* The router (src/app/core/router.py): parse_endpoint_signature, which    *)
(* classifies a handler's parameters when the handler is registered, and   *)
(* wrapped_handler, which serves a request with parse_request_body,        *)
(* parse_request_files, the handler and parse_response.                    *)
(***************************************************************************)
EXTENDS Integers, Sequences, FiniteSets, TLC

\* ------------------------------------------------------------------ bounds

\* Registered event classes at most.
MaxReg == 2
\* runStartup / runShutdown calls begun at most.
MaxCalls == 3
\* Resource values a test stores into a standalone State.
MaxValue == 2
\* Parameters of a handler at most.
MaxParams == 2
\* File payloads of a request at most.
MaxFiles == 1

\* ------------------------------------------------------------ event classes

\* An event class is what the manager reads of it: its `name` attribute and
\* whether it overrides shutdown.  The classes an application registers: two
\* with a shutdown under different names, and one without a shutdown that
\* shares its name with one of them.
EventClasses ==
  {[name |-> "a", overrides_shutdown |-> TRUE],
   [name |-> "b", overrides_shutdown |-> TRUE],
   [name |-> "b", overrides_shutdown |-> FALSE]}

\* BaseEvent.has_shutdown: cls.shutdown is not BaseEvent.shutdown.
has_shutdown_always(cls) == TRUE
has_shutdown(cls) == cls.overrides_shutdown

\* ------------------------------------------------------------------- State

\* State.__init__: _data = {}.  The registry is the function _data, whose
\* domain is the set of names that are set.
StateInit == [n \in {} |-> 0]

\* State.__contains__
StateContains(data, name) == name \in DOMAIN data

\* State.__setattr__: self._data[name] = value
StateSetattr_dropped(data, name, value) == data
StateSetattr(data, name, value) ==
  [n \in (DOMAIN data) \cup {name} |-> IF n = name THEN value ELSE data[n]]

\* The attributes the State class itself defines for its instances: the slot
\* _data and the methods get and clear (the names object defines are left
\* out).
StateOwnAttributes == {"_data", "get", "clear"}

\* getattr(state, name).  Python calls __getattr__ only when the normal
\* lookup finds nothing, so a name the class defines yields the class's own
\* attribute (own: the bound method or the _data dict) whatever _data holds;
\* any other name goes to __getattr__: self._data[name], a KeyError becoming
\* AttributeError.
StateGetattr(data, name) ==
  IF name \in StateOwnAttributes
    THEN [raised |-> "", own |-> TRUE, value |-> 0]
  ELSE IF name \in DOMAIN data
    THEN [raised |-> "", own |-> FALSE, value |-> data[name]]
    ELSE [raised |-> "AttributeError", own |-> FALSE, value |-> 0]

\* State.__delattr__: del self._data[name], a KeyError becoming AttributeError.
\* The result is the outcome and the _data left behind.
StateDelattr(data, name) ==
  IF name \in DOMAIN data
    THEN [raised |-> "", data |-> [n \in (DOMAIN data) \ {name} |-> data[n]]]
    ELSE [raised |-> "AttributeError", data |-> data]

\* State.clear: self._data.clear()
StateClear(data) == StateInit

\* None, among the resource values (which are 1..MaxValue).
None == 0

\* State.get(name, default=None): self._data.get(name, default).  dict.get
\* never raises: the stored value when the name is set, else default, which
\* is None for a caller that passes none.
StateGet_default_ignored(data, name, default) ==
  [raised |-> "", value |-> IF name \in DOMAIN data THEN data[name] ELSE None]
StateGet(data, name, default) ==
  [raised |-> "", value |-> IF name \in DOMAIN data THEN data[name] ELSE default]

\* bool(self._state) as `if not self._state` evaluates it.  State defines
\* neither __bool__ nor __len__, so every State object is true, also an
\* empty one; only None is false.  ref = 0 stands for None.
StateIsFalsy_never(ref) == FALSE
StateIsFalsy(ref) == ref = 0

\* ---------------------------------------------------------------- variables

VARIABLES
  event_classes,  \* Lifespan._event_classes: the registered classes, in order
  events,         \* Lifespan._events: the event instances whose startup returned
  state,          \* Lifespan._state: [ref, data]; ref = 0 is None, else the
                  \* identity of the State object, data its _data
  startup_co,     \* the _startup coroutine: where it is suspended
  shutdown_co,    \* the _shutdown coroutine: where it is suspended
  injected,       \* the app's global dependency `state`: the ref last passed to
                  \* inject_global, 0 when never injected
  next_id,        \* identities handed to newly constructed event instances
  ret,            \* what the last call that returned has returned
  calls,          \* runStartup / runShutdown calls begun so far
  trace,          \* what the runStartup / runShutdown calls have done so far,
                  \* oldest first (bookkeeping: the program does not read it)
  obj,            \* the _data of a standalone State object
  obj_ret,        \* the outcome of the last operation on it
  obj_hist        \* per name, the last operation that changed it

VARIABLES
  FILE_UPLOAD_ENDPOINTS, \* the module's set of paths with a file parameter
  router_pc,      \* "unregistered", then "idle" once a handler is registered;
                  \* "await" while wrapped_handler awaits the handler, "done"
                  \* when it has returned or raised
  handler_sig,    \* inspect.signature(handler): the parameters, in order
  body_config,    \* body_config of handler_decorator: the classified
                  \* parameters in the order of the dict
  file_params,    \* file_params of handler_decorator
  has_request_param, \* "request" in sig.parameters
  request,        \* the request being served: the keyword arguments the
                  \* framework passed and request.files
  body_out,       \* what parse_request_body returned and left in h_kwargs
  files_out,      \* whether parse_request_files was called, what it returned
                  \* and left in h_kwargs
  h_kwargs,       \* h_kwargs as the handler is called with it
  handler_calls,  \* how many times the handler was called for this request
  result,         \* what the handler returned
  out             \* what wrapped_handler returned or raised for this request

router_vars == <<FILE_UPLOAD_ENDPOINTS, router_pc, handler_sig, body_config, file_params,
                 has_request_param, request, body_out, files_out, h_kwargs,
                 handler_calls, result, out>>
lifespan_vars == <<event_classes, events, state, startup_co, shutdown_co,
                   injected, next_id, ret, calls, trace>>
obj_vars == <<obj, obj_ret, obj_hist>>

\* The application's route table and hook tables, and a MiddlewareHandler.
VARIABLES
  app_routes,         \* app.get_all_routes(): the list of (method, path) routes
  middlewares,        \* MiddlewareHandler._middlewares
  before_request,     \* hooks given to app.before_request: (endpoint, middleware)
  after_request,      \* hooks given to app.after_request: (endpoint, middleware)
  routes_at_register  \* ghost: app_routes as it was at each register() call

mw_vars == <<app_routes, middlewares, before_request, after_request,
             routes_at_register>>
vars == <<event_classes, events, state, startup_co, shutdown_co,
          injected, next_id, ret, calls, trace, obj, obj_ret, obj_hist,
          FILE_UPLOAD_ENDPOINTS, router_pc, handler_sig, body_config,
          file_params, has_request_param, request, body_out, files_out, h_kwargs,
          handler_calls, result, out, app_routes, middlewares, before_request,
          after_request, routes_at_register>>

\* The manager object register() is called on.
Self == "self"

NoEvent == [id |-> 0, cls |-> [name |-> "a", overrides_shutdown |-> FALSE], pos |-> 0]
\* A coroutine that is not running.  Of a running one: i is the number of
\* items its iterator has handed out, n the length reversed() found, call the
\* number of the call, event the event instance whose operation it awaits
\* and instance the resource passed to shutdown.
IdleCo == [pc |-> "idle", i |-> 0, n |-> 0, call |-> 0, event |-> NoEvent, instance |-> 0]

\* One entry of `trace`: what happened, in which call, to which event
\* instance (its identity, its class and the place of its class in
\* _event_classes), with which resource instance, and what self._state was
\* at that moment: which object (0 for None) and the names it held.
Entry(op, call, event, instance, st) ==
  [op |-> op, call |-> call, ev |-> event.id, pos |-> event.pos,
   cls |-> event.cls, instance |-> instance, ref |-> st.ref,
   names |-> DOMAIN st.data]

\* The names a caller uses on a standalone State: two ordinary ones and one
\* that is also a method of State.
ObjNames == {"a", "b", "get"}

\* Lifespan.__init__ ; a State object that a caller constructs.
LifespanInit ==
  /\ event_classes = <<>>
  /\ events = <<>>
  /\ state = [ref |-> 0, data |-> StateInit]
  /\ startup_co = IdleCo
  /\ shutdown_co = IdleCo
  /\ injected = 0
  /\ next_id = 1
  /\ ret = [op |-> "none", value |-> "none"]
  /\ calls = 0
  /\ trace = <<>>

ObjInit ==
  /\ obj = StateInit
  /\ obj_ret = [op |-> "init", name |-> "a", raised |-> "", own |-> FALSE, value |-> 0]
  /\ obj_hist = [n \in ObjNames |-> [op |-> "never", value |-> 0]]

\* Python's None among the values the router handles, and the absence of a
\* response.
NoneValue == [type |-> "NoneType"]
NoResponse == [type |-> "NoneType"]
\* An empty dict.
EmptyDict == [n \in {} |-> NoneValue]

\* Before any handler is registered on the router.
RouterInit ==
  /\ FILE_UPLOAD_ENDPOINTS = {}
  /\ router_pc = "unregistered"
  /\ handler_sig = <<>>
  /\ body_config = <<>>
  /\ file_params = {}
  /\ has_request_param = FALSE
  /\ request = [kwargs |-> EmptyDict, files |-> EmptyDict]
  /\ body_out = [error |-> NoResponse, kwargs |-> EmptyDict]
  /\ files_out = [called |-> FALSE, error |-> NoResponse, kwargs |-> EmptyDict]
  /\ h_kwargs = EmptyDict
  /\ handler_calls = 0
  /\ result = NoneValue
  /\ out = [returned |-> <<>>, raised |-> ""]

\* Robyn(__file__) before any route is added ; MiddlewareHandler.__init__
MiddlewareInit ==
  /\ app_routes = <<>>
  /\ middlewares = <<>>
  /\ before_request = {}
  /\ after_request = {}
  /\ routes_at_register = <<>>

Init == LifespanInit /\ ObjInit /\ RouterInit /\ MiddlewareInit

\* --------------------------------------------------------- Lifespan.register

\* self._event_classes.append(event_cls)
Registered_front(classes, cls) == <<cls>> \o classes
Registered(classes, cls) == Append(classes, cls)

\* Lifespan.register(event_cls): no condition on the manager's state; appends
\* and returns self.
Register(cls) ==
  /\ Len(event_classes) < MaxReg
  /\ event_classes' = Registered(event_classes, cls)
  /\ ret' = [op |-> "register", value |-> Self]
  /\ UNCHANGED <<events, state, startup_co, shutdown_co, injected, next_id,
                 calls, trace>>
  /\ UNCHANGED <<obj_vars, router_vars, mw_vars>>

\* ---------------------------------------------------------- Lifespan.startup

\* The for loop of _startup from its head, the list iterator having handed
\* out i items, up to the next await or to the return: either the next class
\* is instantiated and its startup awaited, or the loop is over, the registry
\* is injected and _startup returns.  st is self._state and tr the trace at
\* this point.
StartupLoop(i, call, st, tr) ==
  IF i < Len(event_classes)
    THEN LET event == [id |-> next_id, cls |-> event_classes[i + 1], pos |-> i + 1] IN
         /\ startup_co' = [pc |-> "await", i |-> i + 1, n |-> 0, call |-> call,
                           event |-> event, instance |-> 0]
         /\ next_id' = next_id + 1
         /\ trace' = Append(tr, Entry("startup_begin", call, event, 0, st))
         /\ UNCHANGED <<injected, ret>>
    ELSE /\ startup_co' = IdleCo
         /\ injected' = st.ref
         /\ trace' = tr \o <<Entry("inject", call, NoEvent, 0, st),
                             Entry("startup_return", call, NoEvent, 0, st)>>
         /\ ret' = [op |-> "startup", value |-> "None"]
         /\ UNCHANGED next_id

\* _startup is called: self._state = State(), then the loop.
StartupCall ==
  /\ startup_co.pc = "idle"
  /\ calls < MaxCalls
  /\ calls' = calls + 1
  /\ state' = [ref |-> calls + 1, data |-> StateInit]
  /\ StartupLoop(0, calls + 1, state',
                 Append(trace, Entry("startup_call", calls + 1, NoEvent, 0, state)))
  /\ UNCHANGED <<event_classes, events, shutdown_co>>
  /\ UNCHANGED <<obj_vars, router_vars, mw_vars>>

\* `await event.startup()` returns the instance: it is stored under the
\* event's name, the event is appended to _events, and the loop goes on.  The
\* resource instance is identified by the event instance that created it.
StartupEventReturn ==
  /\ startup_co.pc = "await"
  /\ LET event == startup_co.event
         instance == event.id
     IN /\ state' = [state EXCEPT !.data = StateSetattr(@, event.cls.name, instance)]
        /\ events' = Append(events, event)
        /\ StartupLoop(startup_co.i, startup_co.call, state',
                       Append(trace, Entry("startup_end", startup_co.call, event,
                                           instance, state')))
  /\ UNCHANGED <<event_classes, shutdown_co, calls>>
  /\ UNCHANGED <<obj_vars, router_vars, mw_vars>>

\* `await event.startup()` raises and the loop goes on with the next class
\* all the same.
StartupEventRaise_continue ==
  /\ startup_co.pc = "await"
  /\ StartupLoop(startup_co.i, startup_co.call, state,
                 Append(trace, Entry("startup_raise", startup_co.call,
                                     startup_co.event, 0, state)))
  /\ UNCHANGED <<event_classes, events, state, shutdown_co, calls>>
  /\ UNCHANGED <<obj_vars, router_vars, mw_vars>>

\* `await event.startup()` raises and the registry is injected on the way
\* out.
StartupEventRaise_inject ==
  /\ startup_co.pc = "await"
  /\ startup_co' = IdleCo
  /\ ret' = [op |-> "startup", value |-> "raised"]
  /\ injected' = state.ref
  /\ trace' = trace \o <<Entry("inject", startup_co.call, NoEvent, 0, state),
                          Entry("startup_raise", startup_co.call,
                                startup_co.event, 0, state)>>
  /\ UNCHANGED <<event_classes, events, state, shutdown_co, next_id, calls>>
  /\ UNCHANGED <<obj_vars, router_vars, mw_vars>>

\* `await event.startup()` raises: nothing catches it, so it leaves _startup.
StartupEventRaise ==
  /\ startup_co.pc = "await"
  /\ startup_co' = IdleCo
  /\ ret' = [op |-> "startup", value |-> "raised"]
  /\ trace' = Append(trace, Entry("startup_raise", startup_co.call,
                                  startup_co.event, 0, state))
  /\ UNCHANGED <<event_classes, events, state, shutdown_co, injected, next_id, calls>>
  /\ UNCHANGED <<obj_vars, router_vars, mw_vars>>

\* --------------------------------------------------------- Lifespan.shutdown

\* reversed(self._events): the list index of the j-th item (j = 1, 2, ...) of
\* the reverse iterator of a list that had n items when reversed() was called.
ReversedIndex_forward(n, j) == j
ReversedIndex(n, j) == n - j + 1

\* `event.has_shutdown() and event.name in self._state`
ShutdownWanted_any_name(event, data) == has_shutdown(event.cls)
ShutdownWanted(event, data) ==
  has_shutdown(event.cls) /\ StateContains(data, event.cls.name)

\* The for loop of _shutdown from its head, the reverse iterator having
\* handed out i items, up to the next await or to the return: either the next
\* event that passes the `if` has its shutdown awaited, or the loop is over,
\* the registry is cleared and _shutdown returns.  With self._state None (the
\* guard of _shutdown keeps that from happening) the loop or else the clear
\* raises.
ShutdownLoop(n, i, call, tr) ==
  LET wanted == {j \in (i + 1)..n :
                   ShutdownWanted(events[ReversedIndex(n, j)], state.data)}
  IN IF state.ref = 0
       THEN /\ shutdown_co' = IdleCo
            /\ ret' = [op |-> "shutdown", value |-> "raised"]
            /\ trace' = Append(tr, Entry("shutdown_raise", call, NoEvent, 0, state))
            /\ UNCHANGED state
     ELSE IF wanted # {}
       THEN LET j == CHOOSE x \in wanted : \A y \in wanted : x <= y
                event == events[ReversedIndex(n, j)]
                instance == StateGetattr(state.data, event.cls.name).value
            IN /\ shutdown_co' = [pc |-> "await", i |-> j, n |-> n, call |-> call,
                                  event |-> event, instance |-> instance]
               /\ trace' = Append(tr, Entry("shutdown_begin", call, event,
                                            instance, state))
               /\ UNCHANGED <<state, ret>>
       ELSE /\ shutdown_co' = IdleCo
            /\ state' = [state EXCEPT !.data = StateClear(@)]
            /\ ret' = [op |-> "shutdown", value |-> "None"]
            /\ trace' = tr \o <<Entry("clear", call, NoEvent, 0, state'),
                                Entry("shutdown_return", call, NoEvent, 0, state')>>

\* _shutdown is called: `if not self._state: return`, else the loop.
ShutdownCall ==
  /\ shutdown_co.pc = "idle"
  /\ calls < MaxCalls
  /\ calls' = calls + 1
  /\ LET tr == Append(trace, Entry("shutdown_call", calls + 1, NoEvent, 0, state))
     IN IF StateIsFalsy(state.ref)
          THEN /\ ret' = [op |-> "shutdown", value |-> "None"]
               /\ trace' = Append(tr, Entry("shutdown_return", calls + 1, NoEvent,
                                            0, state))
               /\ UNCHANGED <<state, shutdown_co>>
          ELSE ShutdownLoop(Len(events), 0, calls + 1, tr)
  /\ UNCHANGED <<event_classes, events, startup_co, injected, next_id>>
  /\ UNCHANGED <<obj_vars, router_vars, mw_vars>>

\* `await event.shutdown(instance)` returns and the loop goes on.
ShutdownEventReturn ==
  /\ shutdown_co.pc = "await"
  /\ ShutdownLoop(shutdown_co.n, shutdown_co.i, shutdown_co.call,
                  Append(trace, Entry("shutdown_end", shutdown_co.call,
                                      shutdown_co.event, shutdown_co.instance,
                                      state)))
  /\ UNCHANGED <<event_classes, events, startup_co, injected, next_id, calls>>
  /\ UNCHANGED <<obj_vars, router_vars, mw_vars>>

\* `await event.shutdown(instance)` raises and the loop goes on with the next
\* event all the same.
ShutdownEventRaise_continue ==
  /\ shutdown_co.pc = "await"
  /\ ShutdownLoop(shutdown_co.n, shutdown_co.i, shutdown_co.call,
                  Append(trace, Entry("shutdown_raise", shutdown_co.call,
                                      shutdown_co.event, shutdown_co.instance,
                                      state)))
  /\ UNCHANGED <<event_classes, events, startup_co, injected, next_id, calls>>
  /\ UNCHANGED <<obj_vars, router_vars, mw_vars>>

\* `await event.shutdown(instance)` raises: nothing catches it, so it leaves
\* _shutdown before the remaining events and before the clear.
ShutdownEventRaise ==
  /\ shutdown_co.pc = "await"
  /\ shutdown_co' = IdleCo
  /\ ret' = [op |-> "shutdown", value |-> "raised"]
  /\ trace' = Append(trace, Entry("shutdown_raise", shutdown_co.call,
                                  shutdown_co.event, shutdown_co.instance,
                                  state))
  /\ UNCHANGED <<event_classes, events, state, startup_co, injected, next_id, calls>>
  /\ UNCHANGED <<obj_vars, router_vars, mw_vars>>

\* ------------------------------------------------------------ specification

\* The application hands _startup and _shutdown to the framework
\* (app.startup_handler, app.shutdown_handler), which awaits one to its end
\* before anything else of the manager runs: a call begins only while no
\* other is suspended.
Quiescent == startup_co.pc = "idle" /\ shutdown_co.pc = "idle"

RunRegister == Quiescent /\ \E cls \in EventClasses : Register(cls)
RunStartup == Quiescent /\ StartupCall
RunShutdown == Quiescent /\ ShutdownCall

Next ==
  \/ RunRegister
  \/ RunStartup
  \/ StartupEventReturn
  \/ StartupEventRaise
  \/ RunShutdown
  \/ ShutdownEventReturn
  \/ ShutdownEventRaise

Spec == Init /\ [][Next]_vars

\* ------------------------------------------------- a State object on its own

\* The resource values a caller stores.
Values == 1..MaxValue

\* state.<name> = value
ObjSetattr(name, value) ==
  /\ obj' = StateSetattr(obj, name, value)
  /\ obj_ret' = [op |-> "setattr", name |-> name, raised |-> "", own |-> FALSE,
                 value |-> value]
  /\ obj_hist' = [obj_hist EXCEPT ![name] =
                    [op |-> "set", value |-> value]]
  /\ UNCHANGED <<lifespan_vars, router_vars, mw_vars>>

\* _ = state.<name>
ObjGetattr(name) ==
  /\ LET r == StateGetattr(obj, name)
     IN obj_ret' = [op |-> "getattr", name |-> name, raised |-> r.raised,
                    own |-> r.own, value |-> r.value]
  /\ UNCHANGED <<obj, obj_hist>>
  /\ UNCHANGED <<lifespan_vars, router_vars, mw_vars>>

\* del state.<name>
ObjDelattr(name) ==
  /\ LET r == StateDelattr(obj, name)
     IN /\ obj' = r.data
        /\ obj_ret' = [op |-> "delattr", name |-> name, raised |-> r.raised,
                       own |-> FALSE, value |-> 0]
  /\ obj_hist' = [obj_hist EXCEPT ![name] =
                    [op |-> "delete", value |-> 0]]
  /\ UNCHANGED <<lifespan_vars, router_vars, mw_vars>>

\* state.get(name) when no default is given, state.get(name, default)
\* otherwise.
ObjGet(name, given, default) ==
  /\ LET r == IF given THEN StateGet(obj, name, default)
                        ELSE StateGet(obj, name, None)
     IN obj_ret' = [op |-> "get", name |-> name, raised |-> r.raised,
                    own |-> FALSE, value |-> r.value, given |-> given,
                    default |-> IF given THEN default ELSE None]
  /\ UNCHANGED <<obj, obj_hist>>
  /\ UNCHANGED <<lifespan_vars, router_vars, mw_vars>>

\* state.clear()
ObjClear ==
  /\ obj' = StateClear(obj)
  /\ obj_ret' = [op |-> "clear", name |-> "a", raised |-> "", own |-> FALSE,
                 value |-> 0]
  /\ obj_hist' = [n \in ObjNames |-> [op |-> "clear", value |-> 0]]
  /\ UNCHANGED <<lifespan_vars, router_vars, mw_vars>>

NextState ==
  \/ \E name \in ObjNames, value \in Values : ObjSetattr(name, value)
  \/ \E name \in ObjNames : ObjGetattr(name)
  \/ \E name \in ObjNames : ObjDelattr(name)
  \/ \E name \in ObjNames, given \in BOOLEAN, default \in Values :
       ObjGet(name, given, default)
  \/ ObjClear

SpecState == Init /\ [][NextState]_vars

\* ------------------------------------------------------------------ claims

\* The entries of one call, oldest first; of those, the ones of given kinds.
OfCall(c) == SelectSeq(trace, LAMBDA e : e.call = c)
OfKind(seq, kinds) == SelectSeq(seq, LAMBDA e : e.op \in kinds)
Last(seq) == seq[Len(seq)]
Reverse(seq) == [k \in 1..Len(seq) |-> seq[Len(seq) - k + 1]]
IsPrefix(p, q) == Len(p) <= Len(q) /\ \A k \in 1..Len(p) : p[k] = q[k]
\* The calls that are runStartup calls, the calls that are runShutdown calls.
StartupCalls == {c \in 1..calls : OfCall(c)[1].op = "startup_call"}
ShutdownCalls == {c \in 1..calls : OfCall(c)[1].op = "shutdown_call"}
Returned(c) == Last(OfCall(c)).op \in {"startup_return", "shutdown_return"}
StartupOps == {"startup_begin", "startup_end", "startup_raise"}
ShutdownOps == {"shutdown_begin", "shutdown_end", "shutdown_raise"}

\* C10: for every name of a State: while it has never been set, and again
\* after it was deleted, looking it up by attribute raises AttributeError;
\* after set(name, v) looking it up returns v.  It is stated of the last
\* lookup made and of the last set or delete of that name before it.
C10_LookupFollowsLastChange ==
  obj_ret.op = "getattr" =>
    LET h == obj_hist[obj_ret.name]
    IN /\ h.op \in {"never", "delete"} => obj_ret.raised = "AttributeError"
       /\ h.op = "set" =>
            obj_ret.raised = "" /\ ~obj_ret.own /\ obj_ret.value = h.value

\* C1: runStartup starts the events one after the other in registration
\* order.  In every runStartup call the startup operations begin in the order
\* of _event_classes, each begins only after the one before it has returned,
\* and at most one is in progress at any time; when the startup of the event
\* at place k begins (and while it is in progress) the registry holds exactly
\* the names of the events at places 1..k-1, each name bound to the instance
\* that the last of them with that name returned, and _events ends with those
\* k-1 event instances in order.
C1_StartupSequential ==
  /\ \A c \in StartupCalls :
       LET S == OfKind(OfCall(c), StartupOps)
       IN \A k \in 1..Len(S) :
            IF k % 2 = 1
              THEN /\ S[k].op = "startup_begin"
                   /\ S[k].pos = (k + 1) \div 2
                   /\ S[k].cls = event_classes[S[k].pos]
                   /\ S[k].names = {event_classes[m].name : m \in 1..(S[k].pos - 1)}
              ELSE /\ S[k].op \in {"startup_end", "startup_raise"}
                   /\ S[k].ev = S[k - 1].ev
  /\ Len(OfKind(trace, {"startup_begin"}))
       - Len(OfKind(trace, {"startup_end", "startup_raise"})) \in {0, 1}
  /\ startup_co.pc = "await" =>
       LET k == startup_co.event.pos
           before == Len(events) - (k - 1)
       IN /\ before >= 0
          /\ \A m \in 1..(k - 1) :
               /\ events[before + m].cls = event_classes[m]
               /\ events[before + m].pos = m
               /\ event_classes[m].name \in DOMAIN state.data
               /\ (\A m2 \in (m + 1)..(k - 1) :
                     event_classes[m2].name # event_classes[m].name)
                  => state.data[event_classes[m].name] = events[before + m].id
          /\ DOMAIN state.data = {event_classes[m].name : m \in 1..(k - 1)}

\* The startup of the second registered event is in progress, the first
\* event's result being stored under another name.
C1_Witness ==
  /\ startup_co.pc = "await"
  /\ startup_co.event.pos = 2
  /\ event_classes[1].name # event_classes[2].name
  /\ DOMAIN state.data = {event_classes[1].name}

\* The runShutdown calls that come right after a runStartup call that
\* returned without error.
AfterGoodStartup ==
  {c \in ShutdownCalls : c > 1 /\ (c - 1) \in StartupCalls /\ Returned(c - 1)}
\* The shutdown invocations of call c, oldest first.
Invoked(c) == OfKind(OfCall(c), {"shutdown_begin"})
\* The events whose startup returned before call c began and whose class
\* overrides shutdown, in the order their startups returned.
StartedWithShutdown(c) ==
  SelectSeq(trace, LAMBDA e : /\ e.op = "startup_end"
                              /\ e.call < c
                              /\ e.cls.overrides_shutdown)

C3_NoShutdownSkippedButCleared ==
  /\ \A k \in 1..Len(trace) :
       trace[k].op \in ShutdownOps => trace[k].cls.overrides_shutdown
  /\ (trace # <<>> /\ Last(trace).op = "shutdown_return" /\ Last(trace).ref # 0) =>
       \A k \in 1..Len(events) :
         events[k].cls.name \notin DOMAIN state.data

\* A runShutdown has returned that began with the registry holding the
\* resource of an event without shutdown next to that of an event with
\* shutdown, which it invoked.
C3_Witness ==
  /\ trace # <<>>
  /\ Last(trace).op = "shutdown_return"
  /\ LET c == Last(trace).call
     IN /\ Len(Invoked(c)) = 1
        /\ \E k \in 1..Len(events) :
             /\ ~events[k].cls.overrides_shutdown
             /\ events[k].cls.name \in OfCall(c)[1].names
             /\ events[k].cls.name # Invoked(c)[1].cls.name
  /\ DOMAIN state.data = {}

\* C4: as long as runStartup has never run (self._state is None), every
\* runShutdown call made has returned None at once without raising, no
\* startup or shutdown operation of any event has been invoked, nothing was
\* injected, the registry is still absent and _events is still empty.
C4_ShutdownBeforeStartupNoop ==
  state.ref = 0 =>
    /\ state.data = StateInit
    /\ events = <<>>
    /\ injected = 0
    /\ next_id = 1
    /\ Quiescent
    /\ Len(trace) = 2 * calls
    /\ \A k \in 1..Len(trace) :
         IF k % 2 = 1
           THEN trace[k].op = "shutdown_call"
           ELSE trace[k].op = "shutdown_return" /\ trace[k].call = trace[k - 1].call
    /\ ret.op = "shutdown" => ret.value = "None"

\* runShutdown has returned on a manager that has registered events and has
\* never run runStartup.
C4_Witness ==
  /\ state.ref = 0
  /\ ret.op = "shutdown"
  /\ calls > 0
  /\ event_classes # <<>>
  /\ \E k \in 1..Len(event_classes) : event_classes[k].overrides_shutdown

\* The runShutdown calls that come right after a runShutdown call that found
\* a registry (runStartup had run) and returned without error.
AfterGoodShutdown ==
  {c \in ShutdownCalls : /\ c > 1
                         /\ (c - 1) \in ShutdownCalls
                         /\ Returned(c - 1)
                         /\ OfCall(c - 1)[1].ref # 0}

\* C5: a runShutdown made after runStartup and a runShutdown that returned
\* without error does no further work: it invokes no shutdown operation,
\* raises nothing, clears the already empty registry and returns, and the
\* registry is then empty but still the same State object, not None.
C5_SecondShutdownIdempotent ==
  \A c \in AfterGoodShutdown :
    LET E == OfCall(c)
    IN /\ [k \in 1..Len(E) |-> E[k].op]
            = <<"shutdown_call", "clear", "shutdown_return">>
       /\ \A k \in 1..Len(E) :
            /\ E[k].names = {}
            /\ E[k].ref = OfCall(c - 1)[1].ref
            /\ E[k].ref # 0
       /\ Last(trace).call = c =>
            /\ state.ref = OfCall(c - 1)[1].ref
            /\ state.data = StateInit
            /\ Quiescent

\* The second of two successive runShutdown calls has returned, the first
\* having invoked the shutdown of a started event.
C5_Witness ==
  \E c \in AfterGoodShutdown :
    /\ Last(trace).call = c
    /\ Len(Invoked(c - 1)) >= 1
    /\ state.ref # 0

\* C6: when the startup operation of the event at place k raises, that is
\* the last thing the runStartup call does: it begins no later event's
\* startup, injects nothing, does not return normally, and invokes no
\* shutdown operation and no clear (no rollback).  Right after the failure
\* the k-1 events started before are still the last k-1 entries of _events
\* and the registry still holds exactly their names.
C6_StartupFailureNoRollback ==
  \A k \in 1..Len(trace) :
    trace[k].op = "startup_raise" =>
      LET c == trace[k].call
          E == OfCall(c)
          p == trace[k].pos
          before == Len(events) - (p - 1)
      IN /\ Last(E) = trace[k]
         /\ \A j \in 1..Len(E) :
              E[j].op \notin ShutdownOps \cup {"clear", "inject", "startup_return"}
         /\ Len(OfKind(E, {"startup_begin"})) = p
         /\ k = Len(trace) =>
              /\ startup_co.pc = "idle"
              /\ state.ref = c
              /\ injected # c
              /\ before >= 0
              /\ \A m \in 1..(p - 1) :
                   /\ events[before + m].cls = event_classes[m]
                   /\ events[before + m].pos = m
                   /\ event_classes[m].name \in DOMAIN state.data
              /\ DOMAIN state.data = {event_classes[m].name : m \in 1..(p - 1)}

\* The startup of the second event has just raised, the first event staying
\* in _events and in the registry; and in an earlier call the startup of the
\* first registered event raised.
C6_Witness ==
  /\ trace # <<>>
  /\ Last(trace).op = "startup_raise"
  /\ Last(trace).pos = 2
  /\ events # <<>>
  /\ Last(events).pos = 1
  /\ Last(events).cls.overrides_shutdown
  /\ Last(events).cls.name \in DOMAIN state.data
  /\ \E k \in 1..(Len(trace) - 1) :
       /\ trace[k].op = "startup_raise"
       /\ trace[k].pos = 1
       /\ trace[k].cls = event_classes[1]
       /\ trace[k].call < Last(trace).call

\* C7: when the shutdown operation of an event raises, that is the last
\* thing the runShutdown call does: the events that come after it in the
\* reverse traversal (earlier in registration order) get no shutdown
\* invocation in that call, the registry is not cleared and the call does not
\* return normally.
C7_ShutdownFailureStops ==
  \A k \in 1..Len(trace) :
    trace[k].op = "shutdown_raise" =>
      LET c == trace[k].call
          E == OfCall(c)
      IN /\ Last(E) = trace[k]
         /\ Last(Invoked(c)).ev = trace[k].ev
         /\ \A j \in 1..Len(E) : E[j].op \notin {"clear", "shutdown_return"}
         /\ k = Len(trace) =>
              /\ shutdown_co.pc = "idle"
              /\ DOMAIN state.data = E[1].names

\* The shutdown of the last started event has just raised; the event started
\* before it overrides shutdown, is still in the registry and was not
\* invoked.
C7_Witness ==
  /\ trace # <<>>
  /\ Last(trace).op = "shutdown_raise"
  /\ Len(Invoked(Last(trace).call)) = 1
  /\ Len(events) >= 2
  /\ events[Len(events)].id = Last(trace).ev
  /\ events[Len(events) - 1].cls.overrides_shutdown
  /\ events[Len(events) - 1].cls.name \in DOMAIN state.data
  /\ events[Len(events) - 1].cls.name # Last(trace).cls.name

\* A step that changes _event_classes: only register does.
RegisterStep == event_classes' # event_classes
RegisterAppends ==
  /\ Len(event_classes') = Len(event_classes) + 1
  /\ SubSeq(event_classes', 1, Len(event_classes)) = event_classes
  /\ Last(event_classes') \in EventClasses
  /\ ret' = [op |-> "register", value |-> Self]
  /\ UNCHANGED <<events, state, startup_co, shutdown_co, injected, next_id>>

\* C8 as stated: register happens only while the manager is idle (before any
\* runStartup has begun, self._state still None), and then appends the class
\* at the end of _event_classes and returns the manager.
C8_RegisterOnlyWhileIdle ==
  [][RegisterStep => state.ref = 0 /\ RegisterAppends]_vars

\* C8 as amended: register checks nothing about the manager; whenever it is
\* called, before or after runStartup and runShutdown, it appends the class at
\* the end of _event_classes, leaves the rest of the manager alone and returns
\* the manager itself.
C8_RegisterAlwaysAppends ==
  [][RegisterStep => RegisterAppends]_vars

\* register has returned the manager after a runStartup call and a
\* runShutdown call had ended, the class it was given being the last of two
\* registered.
C8_Witness ==
  /\ ret = [op |-> "register", value |-> Self]
  /\ Quiescent
  /\ state.ref # 0
  /\ ShutdownCalls # {}
  /\ Len(event_classes) = 2
  /\ Len(OfKind(trace, {"startup_begin"})) = 1
  /\ event_classes[1] # event_classes[2]

\* C9: the registry is injected exactly once in every runStartup call that
\* returns without error, as the last thing before the return, when the
\* startup of every registered event has returned and its result is stored;
\* a runStartup call in which a startup raised (or which is still running)
\* and a runShutdown call inject nothing.  What the app holds is therefore
\* always the registry of a runStartup call that succeeded.
C9_InjectOncePerGoodStartup ==
  /\ \A c \in 1..calls :
       LET E == OfCall(c)
           inj == OfKind(E, {"inject"})
           ended == OfKind(E, {"startup_end"})
       IN /\ Len(inj) = IF c \in StartupCalls /\ Returned(c) THEN 1 ELSE 0
          /\ Len(inj) = 1 =>
               /\ E[Len(E) - 1].op = "inject"
               /\ Len(OfKind(E, {"startup_begin"})) = Len(ended)
               /\ \A k \in 1..Len(ended) : ended[k].pos = k
               /\ inj[1].ref = c
               /\ inj[1].names = {ended[k].cls.name : k \in 1..Len(ended)}
               /\ (Last(trace).call = c /\ ret.op = "startup") =>
                    /\ Len(ended) = Len(event_classes)
                    /\ injected = c
                    /\ state.ref = c
                    /\ DOMAIN state.data =
                         {event_classes[m].name : m \in 1..Len(event_classes)}
  /\ injected # 0 => injected \in StartupCalls /\ Returned(injected)

\* A runStartup with two registered events has just returned and injected
\* its registry, after an earlier runStartup call in which a startup raised.
C9_Witness ==
  /\ trace # <<>>
  /\ Last(trace).op = "startup_return"
  /\ ret.op = "startup"
  /\ Len(event_classes) = 2
  /\ Cardinality(DOMAIN state.data) = 2
  /\ injected = state.ref
  /\ \E c \in StartupCalls :
       c < Last(trace).call /\ Last(OfCall(c)).op = "startup_raise"

\* C11 (as the claim states it): state.get(name) raises a missing-resource
\* error when the name is absent and the caller gave no default, returns the
\* caller's default when the name is absent and a default was given, and
\* returns the stored value when the name is present.
C11_GetRaisesWithoutDefault ==
  obj_ret.op = "get" =>
    LET h == obj_hist[obj_ret.name]
    IN /\ (h.op # "set" /\ ~obj_ret.given) => obj_ret.raised = "AttributeError"
       /\ (h.op # "set" /\ obj_ret.given) =>
            obj_ret.raised = "" /\ obj_ret.value = obj_ret.default
       /\ h.op = "set" => obj_ret.raised = "" /\ obj_ret.value = h.value

\* C11 (amended): state.get never raises.  When the name is absent it
\* returns None if the caller gave no default and the caller's default if one
\* was given; when the name is present it returns the stored value.
C11_GetReturnsDefaultOrNone ==
  obj_ret.op = "get" =>
    LET h == obj_hist[obj_ret.name]
    IN /\ obj_ret.raised = ""
       /\ (h.op # "set" /\ ~obj_ret.given) => obj_ret.value = None
       /\ (h.op # "set" /\ obj_ret.given) => obj_ret.value = obj_ret.default
       /\ h.op = "set" => obj_ret.value = h.value

\* A get of a name that was set and deleted again, with a default given,
\* has returned that default.
C11_Witness ==
  /\ obj_ret.op = "get"
  /\ obj_hist[obj_ret.name].op = "delete"
  /\ obj_ret.given
  /\ obj_ret.value = obj_ret.default
  /\ obj_ret.value # None

\* ------------------------------------------------ parse_endpoint_signature

\* BodyType (src/app/models/core.py)
PYDANTIC == "pydantic"
JSONABLE == "jsonable"
\* (A marshaler that decodes a raw body as JSON.)
RAW_decoded == JSONABLE
RAW == "raw"

\* An annotation as parse_endpoint_signature reads it: its __name__, whether
\* it is a class (isinstance(annotation, type)) and, of a class, the names of
\* the classes in its MRO (issubclass(annotation, C) is C \in mro).
Class(name, bases) == [name |-> name, is_type |-> TRUE, mro |-> {name} \cup bases]
\* No class: the None that stands for a missing model_cls.
NoClass == [name |-> "None", is_type |-> FALSE, mro |-> {}]

\* app.models.core.UploadFile
UploadFileCls == Class("UploadFile", {})
\* class SampleModel(BaseModel) of the tests
SampleModelCls == Class("SampleModel", {"BaseModel"})
\* a subclass of robyn.types.Body
JsonBodyCls == Class("JsonBody", {"Body"})
\* the builtins dict and int, int being a type the classifier knows nothing of
DictCls == Class("dict", {})
IntCls == Class("int", {})
\* inspect.Parameter.empty, the annotation of an untyped parameter (a class)
EmptyCls == Class("_empty", {})
\* dict[str, Any]: a types.GenericAlias, which is no class
DictAlias == [name |-> "dict[str, Any]", is_type |-> FALSE, mro |-> {}]

Annotations ==
  {UploadFileCls, SampleModelCls, JsonBodyCls, DictCls, IntCls, EmptyCls,
   DictAlias}
\* The parameter names of the handlers.
ParamNames == {"body", "data", "request"}

\* The signatures a handler can have: at most MaxParams parameters with
\* different names, each with an annotation.
Signatures ==
  UNION {{sig \in [1..n -> [name : ParamNames, annotation : Annotations]] :
            \A i, j \in 1..n : sig[i].name = sig[j].name => i = j} :
         n \in 0..MaxParams}

\* d[key] = value on a dict held as the sequence of its items in insertion
\* order: a key already there keeps its place.
DictSetItem(d, key, value) ==
  IF \E k \in 1..Len(d) : d[k].name = key
    THEN [k \in 1..Len(d) |-> IF d[k].name = key THEN value ELSE d[k]]
    ELSE Append(d, value)

\* type(annotation.__name__, (annotation, Body), {}): a new class of the same
\* name that derives from the annotation and from Body.
WithBody(annotation) ==
  [name |-> annotation.name, is_type |-> TRUE,
   mro |-> annotation.mro \cup {"Body"}]

\* The match statement on one parameter: the items it adds to `parsed`, none
\* or one.  The cases are tried in order; the last one looks at the name
\* alone.
MatchAnnotation(name, annotation) ==
  IF annotation.is_type /\ "BaseModel" \in annotation.mro
    THEN <<[name |-> name, body_type |-> PYDANTIC,
            model_cls |-> WithBody(annotation)]>>
  ELSE IF annotation.is_type /\ "Body" \in annotation.mro
    THEN <<[name |-> name, body_type |-> JSONABLE, model_cls |-> annotation]>>
  ELSE IF annotation.is_type /\ annotation = DictCls
    THEN <<[name |-> name, body_type |-> JSONABLE, model_cls |-> NoClass]>>
  ELSE IF name = "body"
    THEN <<[name |-> name, body_type |-> JSONABLE, model_cls |-> NoClass]>>
    ELSE <<>>

\* What the loop body adds to `parsed` for a parameter annotated UploadFile:
\* nothing, `continue` skips the match statement.
FileBranch_no_continue(name, annotation) == MatchAnnotation(name, annotation)
FileBranch(name, annotation) == <<>>

\* The for loop of parse_endpoint_signature from parameter i on, with the
\* `parsed` and `file_params` built so far.
RECURSIVE SignatureLoop(_, _, _, _)
SignatureLoop(sig, i, parsed, files) ==
  IF i > Len(sig)
    THEN [parsed |-> parsed, file_params |-> files]
    ELSE LET name == sig[i].name
             annotation == sig[i].annotation
             items == IF annotation = UploadFileCls
                        THEN FileBranch(name, annotation)
                        ELSE MatchAnnotation(name, annotation)
             parsed1 == IF items = <<>> THEN parsed
                        ELSE DictSetItem(parsed, name, items[1])
             files1 == IF annotation = UploadFileCls
                         THEN files \cup {name} ELSE files
         IN SignatureLoop(sig, i + 1, parsed1, files1)

parse_endpoint_signature(sig) == SignatureLoop(sig, 1, <<>>, {})

\* The path the router is mounted at and the endpoint of the handler.
RouterPrefix == "/api"
Endpoint == "/predict"

\* handler_decorator(handler), the decorator a router method returns: the
\* signature is classified once, and the path of a handler with a file
\* parameter is added to FILE_UPLOAD_ENDPOINTS.
Decorate(sig) ==
  /\ router_pc = "unregistered"
  /\ LET r == parse_endpoint_signature(sig) IN
       /\ body_config' = r.parsed
       /\ file_params' = r.file_params
       /\ FILE_UPLOAD_ENDPOINTS' =
            IF r.file_params # {}
              THEN FILE_UPLOAD_ENDPOINTS \cup {RouterPrefix \o Endpoint}
              ELSE FILE_UPLOAD_ENDPOINTS
  /\ handler_sig' = sig
  /\ has_request_param' = \E i \in 1..Len(sig) : sig[i].name = "request"
  /\ router_pc' = "idle"
  /\ UNCHANGED <<request, body_out, files_out, h_kwargs, handler_calls,
                 result, out>>
  /\ UNCHANGED <<lifespan_vars, obj_vars, mw_vars>>

\* ------------------------------------------------------------ Python values

\* A value is a record whose `type` is the name of its class.
Str(text) == [type |-> "str", text |-> text]
Bytes(text) == [type |-> "bytes", text |-> text]
PyInt(n) == [type |-> "int", n |-> n]
\* A dict and a pydantic model instance, as the sequence of their items in
\* order, each a key (a field name) and a value.
Item(key, value) == [key |-> key, value |-> value]
Dict(items) == [type |-> "dict", items |-> items]
Model(cls, items) == [type |-> "model", cls |-> cls.name, items |-> items]
\* UploadFile(files=...): self.files = files or {}
UploadFile(files) == [type |-> "UploadFile", files |-> files]
\* Response(status_code=, headers=, description=), constructed by `by`.  Two
\* responses are the same object only if the same place constructed them.
Response(by, status_code, headers, description) ==
  [type |-> "Response", by |-> by, status_code |-> status_code,
   headers |-> headers, description |-> description]
\* The Request object.
RequestObject == [type |-> "Request"]

\* bool(v) of a value that is a Response or None (`if error := ...`): a
\* Response defines neither __bool__ nor __len__.
IsTruthy_never(v) == FALSE
IsTruthy(v) == v.type # "NoneType"

\* isinstance(raw, (str, bytes))
IsText_str_only(raw) == raw.type = "str"
IsText(raw) == raw.type \in {"str", "bytes"}

\* The request bodies of the tests.
ValidModelText == "{\"name\": \"test\", \"value\": 42}"
MissingFieldText == "{\"name\": \"test\"}"
NotJsonText == "not valid json"

\* orjson.loads(raw) of a str or bytes: the decoded value, or JSONDecodeError
\* with its message.
OrjsonLoads(raw) ==
  CASE raw.text = ValidModelText ->
         [raised |-> "", message |-> "",
          value |-> Dict(<<Item(Str("name"), Str("test")),
                           Item(Str("value"), PyInt(42))>>)]
    [] raw.text = MissingFieldText ->
         [raised |-> "", message |-> "",
          value |-> Dict(<<Item(Str("name"), Str("test"))>>)]
    [] OTHER ->
         [raised |-> "JSONDecodeError",
          message |-> "expected ident at line 1 column 2: line 1 column 2 (char 1)",
          value |-> NoneValue]

\* model_cls.model_validate_json(raw) for a class deriving from SampleModel
\* (name: str, value: int): the instance, or ValidationError with its json().
ModelValidateJson(model_cls, raw) ==
  LET d == OrjsonLoads(raw) IN
  IF d.raised # ""
    THEN [raised |-> "ValidationError", value |-> NoneValue,
          json |-> "[{\"type\":\"json_invalid\",\"loc\":[],\"msg\":\"Invalid JSON: expected ident at line 1 column 2\"}]"]
  ELSE IF {d.value.items[k].key.text : k \in 1..Len(d.value.items)}
            # {"name", "value"}
    THEN [raised |-> "ValidationError", value |-> NoneValue,
          json |-> "[{\"type\":\"missing\",\"loc\":[\"value\"],\"msg\":\"Field required\"}]"]
    ELSE [raised |-> "", json |-> "",
          value |-> Model(model_cls, d.value.items)]

\* The text of a JSON document of items k.. of a sequence of texts, joined
\* by sep.
RECURSIVE Join(_, _, _)
Join(texts, k, sep) ==
  IF k > Len(texts) THEN ""
  ELSE IF k = Len(texts) THEN texts[k]
  ELSE texts[k] \o sep \o Join(texts, k + 1, sep)

\* orjson.dumps(v).decode(): the JSON text of v, or TypeError
\* (JSONEncodeError) for a dict key that is no str and for a value of a type
\* orjson does not serialise.  The texts here need no escaping.
RECURSIVE OrjsonDumps(_)
OrjsonDumps(v) ==
  CASE v.type = "NoneType" -> [raised |-> "", text |-> "null"]
    [] v.type = "int" -> [raised |-> "", text |-> ToString(v.n)]
    [] v.type = "str" -> [raised |-> "", text |-> "\"" \o v.text \o "\""]
    [] v.type = "list" ->
         LET parts == [k \in 1..Len(v.items) |-> OrjsonDumps(v.items[k])] IN
         IF \E k \in 1..Len(parts) : parts[k].raised # ""
           THEN [raised |-> "TypeError", text |-> ""]
           ELSE [raised |-> "",
                 text |-> "[" \o Join([k \in 1..Len(parts) |-> parts[k].text],
                                      1, ",") \o "]"]
    [] v.type = "dict" ->
         LET vals == [k \in 1..Len(v.items) |-> OrjsonDumps(v.items[k].value)] IN
         IF \/ \E k \in 1..Len(v.items) : v.items[k].key.type # "str"
            \/ \E k \in 1..Len(vals) : vals[k].raised # ""
           THEN [raised |-> "TypeError", text |-> ""]
           ELSE [raised |-> "",
                 text |-> "{" \o Join([k \in 1..Len(vals) |->
                                         "\"" \o v.items[k].key.text \o "\":"
                                           \o vals[k].text], 1, ",") \o "}"]
    [] OTHER -> [raised |-> "TypeError", text |-> ""]

\* result.model_dump_json(indent=4) of a model instance whose fields are
\* strs and ints.
ModelDumpJson(v) ==
  "{\n" \o Join([k \in 1..Len(v.items) |->
                   "    \"" \o v.items[k].key.text \o "\": "
                     \o OrjsonDumps(v.items[k].value).text], 1, ",\n") \o "\n}"

\* str(v)
PyStr(v) ==
  CASE v.type = "str" -> v.text
    [] v.type = "int" -> ToString(v.n)
    [] v.type = "NoneType" -> "None"
    [] v.type = "bytes" -> "b'" \o v.text \o "'"
    [] OTHER -> "<" \o v.type \o " object>"

\* The headers of a JSON response, and no headers.
JsonHeaders == [h \in {"content-type"} |-> "application/json"]
NoHeaders == [h \in {} |-> ""]

\* --------------------------------------------------------- parse_request_body

\* kwargs[name] = value
SetKwarg(kwargs, name, value) ==
  [n \in (DOMAIN kwargs) \cup {name} |-> IF n = name THEN value ELSE kwargs[n]]

\* The for loop of parse_request_body from item k of body_config on: the
\* response it returns (None when the loop ends) and the kwargs it leaves.
RECURSIVE BodyLoop(_, _, _)
BodyLoop(config, k, kwargs) ==
  IF k > Len(config) THEN [error |-> NoResponse, kwargs |-> kwargs]
  ELSE
    LET param_name == config[k].name
        body_type == config[k].body_type
        model_cls == config[k].model_cls
    IN
    IF param_name \notin DOMAIN kwargs THEN BodyLoop(config, k + 1, kwargs)
    ELSE IF ~IsText(kwargs[param_name]) THEN BodyLoop(config, k + 1, kwargs)
    ELSE
      LET raw == kwargs[param_name] IN
      IF body_type = PYDANTIC /\ model_cls # NoClass THEN
        LET r == ModelValidateJson(model_cls, raw) IN
        IF r.raised = ""
          THEN BodyLoop(config, k + 1, SetKwarg(kwargs, param_name, r.value))
          ELSE [error |-> Response("parse_request_body", 422, NoHeaders, r.json),
                kwargs |-> kwargs]
      ELSE IF body_type = JSONABLE THEN
        LET r == OrjsonLoads(raw) IN
        IF r.raised = ""
          THEN BodyLoop(config, k + 1, SetKwarg(kwargs, param_name, r.value))
          ELSE [error |-> Response("parse_request_body", 422, NoHeaders, r.message),
                kwargs |-> kwargs]
      ELSE BodyLoop(config, k + 1, kwargs)

\* (A marshaler that decodes every parameter it can and then reports the
\* first failure.)
parse_request_body_decode_all(config, kwargs) ==
  LET r == BodyLoop(config, 1, kwargs)
      decoded(n) ==
        IF \E k \in 1..Len(config) :
             /\ config[k].name = n
             /\ config[k].body_type = JSONABLE
             /\ IsText(kwargs[n])
             /\ OrjsonLoads(kwargs[n]).raised = ""
          THEN OrjsonLoads(kwargs[n]).value
          ELSE kwargs[n]
  IN IF IsTruthy(r.error)
       THEN [error |-> r.error,
             kwargs |-> [n \in DOMAIN r.kwargs |->
                           IF r.kwargs[n] = kwargs[n] THEN decoded(n)
                           ELSE r.kwargs[n]]]
       ELSE r
parse_request_body(config, kwargs) == BodyLoop(config, 1, kwargs)

\* -------------------------------------------------------- parse_request_files

\* parse_request_files(file_params, request, kwargs), files being
\* request.files and order the order in which the set file_params is
\* iterated.
parse_request_files_unchecked(params, files, kwargs, order) ==
  IF params = {} THEN [error |-> NoResponse, kwargs |-> kwargs]
  ELSE
    [error |-> NoResponse,
     kwargs |-> [n \in (DOMAIN kwargs) \cup params |->
                   IF n \in params THEN UploadFile(files) ELSE kwargs[n]]]
parse_request_files(params, files, kwargs, order) ==
  IF params = {} THEN [error |-> NoResponse, kwargs |-> kwargs]
  ELSE IF DOMAIN files = {} THEN
    [error |-> Response("parse_request_files", 422, JsonHeaders,
                 OrjsonDumps(Dict(<<Item(Str("error"), Str("missing_files")),
                                    Item(Str("required"),
                                         [type |-> "list",
                                          items |-> [k \in 1..Len(order) |->
                                                       Str(order[k])]])>>)).text),
     kwargs |-> kwargs]
  ELSE
    [error |-> NoResponse,
     kwargs |-> [n \in (DOMAIN kwargs) \cup params |->
                   IF n \in params THEN UploadFile(files) ELSE kwargs[n]]]

\* ------------------------------------------------------------- parse_response

\* parse_response(result): the response it returns, or what it raises.
parse_response(v) ==
  CASE v.type = "Response" -> [raised |-> "", response |-> v]
    [] v.type = "model" ->
         [raised |-> "",
          response |-> Response("parse_response", 200, JsonHeaders,
                                ModelDumpJson(v))]
    [] v.type = "dict" ->
         LET d == OrjsonDumps(v) IN
         IF d.raised # ""
           THEN [raised |-> d.raised, response |-> NoResponse]
           ELSE [raised |-> "",
                 response |-> Response("parse_response", 200, JsonHeaders,
                                       d.text)]
    [] OTHER ->
         [raised |-> "",
          response |-> Response("parse_response", 200, NoHeaders, PyStr(v))]

\* ------------------------------------------------------------ wrapped_handler

\* What the framework passes for a classified parameter: the request body
\* as str or bytes.
RawBodies ==
  {Str(ValidModelText), Str(MissingFieldText), Bytes(NotJsonText)}
\* A value the caller has parsed already for a parameter classified as
\* `item`: an instance of the model class, or a dict.
ParsedValue(item) ==
  IF item.body_type = PYDANTIC
    THEN Model(item.model_cls, <<Item(Str("name"), Str("test")),
                                 Item(Str("value"), PyInt(42))>>)
    ELSE Dict(<<Item(Str("key"), Str("value"))>>)
BodyValues == RawBodies \cup {ParsedValue(item) : item \in
                [name : {"body"}, body_type : {PYDANTIC, JSONABLE},
                 model_cls : {SampleModelCls}]}
\* What it passes for any other parameter: a text.
OtherValue == Str("7")

\* The keyword arguments of a request.  The signature the wrapper shows the
\* framework leaves out the file parameters, and `request` is the wrapper's
\* own parameter: neither is in h_kwargs.  A classified parameter may be
\* missing.
RequestKwargs ==
  LET names == {handler_sig[i].name : i \in 1..Len(handler_sig)}
                 \ ({"request"} \cup file_params)
      keys == {body_config[k].name : k \in 1..Len(body_config)}
      other == names \ keys
      item(n) == body_config[CHOOSE k \in 1..Len(body_config) :
                               body_config[k].name = n]
  IN {kw \in UNION {[other \cup S -> BodyValues \cup {OtherValue}] :
                      S \in SUBSET (names \cap keys)} :
        \A n \in DOMAIN kw :
          IF n \in other THEN kw[n] = OtherValue
          ELSE kw[n] \in RawBodies \cup {ParsedValue(item(n))}}

\* The multipart fields of an upload, and request.files: the payloads of the
\* first k of them.  Only a request to a handler with a file parameter
\* carries any.
FileFields == <<"file", "image", "extra">>
RequestFiles ==
  {[f \in {FileFields[j] : j \in 1..k} |-> Bytes("content")] :
     k \in 0..(IF file_params = {} THEN 0 ELSE MaxFiles)}

\* The orders in which a set can be iterated.
Orders(S) ==
  {q \in [1..Cardinality(S) -> S] :
     \A i, j \in 1..Cardinality(S) : q[i] = q[j] => i = j}

\* wrapped_handler(request, **h_kwargs) from its call to `await handler(...)`
\* or to the return of an error response.  The wrapper keeps nothing from
\* one request to the next (h_kwargs is new in every call, body_config and
\* file_params are only read), so one request is followed.
WrappedHandlerCall(kwargs, files, order) ==
  /\ router_pc = "idle"
  /\ request' = [kwargs |-> kwargs, files |-> files]
  /\ result' = NoneValue
  /\ LET b == parse_request_body(body_config, kwargs)
         f == parse_request_files(file_params, files, b.kwargs, order)
     IN
     /\ body_out' = b
     /\ IF IsTruthy(b.error)
          THEN /\ files_out' = [called |-> FALSE, error |-> NoResponse,
                                kwargs |-> b.kwargs]
               /\ h_kwargs' = b.kwargs
               /\ handler_calls' = 0
               /\ out' = [returned |-> <<b.error>>, raised |-> ""]
               /\ router_pc' = "done"
          ELSE IF file_params # {} /\ IsTruthy(f.error)
          THEN /\ files_out' = [called |-> TRUE, error |-> f.error,
                                kwargs |-> f.kwargs]
               /\ h_kwargs' = f.kwargs
               /\ handler_calls' = 0
               /\ out' = [returned |-> <<f.error>>, raised |-> ""]
               /\ router_pc' = "done"
          ELSE LET kw == IF file_params # {} THEN f.kwargs ELSE b.kwargs IN
               /\ files_out' = [called |-> file_params # {}, error |-> NoResponse,
                                kwargs |-> kw]
               /\ h_kwargs' = IF has_request_param
                                THEN SetKwarg(kw, "request", RequestObject)
                                ELSE kw
               /\ handler_calls' = 1
               /\ out' = [returned |-> <<>>, raised |-> ""]
               /\ router_pc' = "await"
  /\ UNCHANGED <<FILE_UPLOAD_ENDPOINTS, handler_sig, body_config, file_params,
                 has_request_param>>
  /\ UNCHANGED <<lifespan_vars, obj_vars, mw_vars>>

\* What the handlers return: a Response of their own, a model instance,
\* dicts (one with a key that is no str, one holding a value of a type that
\* JSON does not have), a text, a number, None.
HandlerResults ==
  {Response("handler", 201, NoHeaders, "created"),
   Model(SampleModelCls, <<Item(Str("name"), Str("x")),
                           Item(Str("value"), PyInt(1))>>),
   Dict(<<Item(Str("a"), PyInt(1))>>),
   Dict(<<Item(PyInt(1), Str("a"))>>),
   Dict(<<Item(Str("a"), [type |-> "set"])>>),
   Str("plain text"),
   PyInt(123),
   NoneValue}

\* `result = await handler(**h_kwargs)` returns v; return parse_response(result).
HandlerReturn(v) ==
  /\ router_pc = "await"
  /\ result' = v
  /\ LET r == parse_response(v) IN
       out' = IF r.raised = ""
                THEN [returned |-> <<r.response>>, raised |-> ""]
                ELSE [returned |-> <<>>, raised |-> r.raised]
  /\ router_pc' = "done"
  /\ UNCHANGED <<FILE_UPLOAD_ENDPOINTS, handler_sig, body_config, file_params,
                 has_request_param, request, body_out, files_out, h_kwargs,
                 handler_calls>>
  /\ UNCHANGED <<lifespan_vars, obj_vars, mw_vars>>

\* `await handler(**h_kwargs)` raises: the exception leaves wrapped_handler.
HandlerRaise ==
  /\ router_pc = "await"
  /\ out' = [returned |-> <<>>, raised |-> "Exception"]
  /\ router_pc' = "done"
  /\ UNCHANGED <<FILE_UPLOAD_ENDPOINTS, handler_sig, body_config, file_params,
                 has_request_param, request, body_out, files_out, h_kwargs,
                 handler_calls, result>>
  /\ UNCHANGED <<lifespan_vars, obj_vars, mw_vars>>

\* A handler is registered on the router; the framework calls the wrapper
\* with a request; the handler returns.
RegisterHandler ==
  router_pc = "unregistered" /\ \E sig \in Signatures : Decorate(sig)
ServeRequest ==
  /\ router_pc = "idle"
  /\ \E kwargs \in RequestKwargs, files \in RequestFiles,
        order \in Orders(file_params) :
       WrappedHandlerCall(kwargs, files, order)
HandlerReturns ==
  router_pc = "await" /\ \E v \in HandlerResults : HandlerReturn(v)

NextRouter ==
  \/ RegisterHandler
  \/ ServeRequest
  \/ HandlerReturns
  \/ HandlerRaise

SpecRouter == Init /\ [][NextRouter]_vars

\* --------------------------------------------------- claims on the router

\* The keys of body_config; its item for a key.
BodyKeys == {body_config[k].name : k \in 1..Len(body_config)}
BodyItem(name) ==
  body_config[CHOOSE k \in 1..Len(body_config) : body_config[k].name = name]
\* The rules of the classifier that look at the declared type.
IsFileMarker(a) == a = UploadFileCls
IsSchema(a) == a.is_type /\ "BaseModel" \in a.mro
IsBodyMarker(a) == a.is_type /\ "Body" \in a.mro
IsMapping(a) == a = DictCls
Untyped(a) == a = EmptyCls

\* C16: of every parameter of a registered handler: typed as a BaseModel
\* subclass, it is in body_config tagged schema with a schema handle, a class
\* deriving from the declared one; typed dict, or untyped and named `body`,
\* it is in body_config tagged generic-JSON; typed UploadFile, it is in
\* file_params and not in body_config.  file_params and the keys of
\* body_config are disjoint.
C16_Classification ==
  router_pc # "unregistered" =>
    /\ \A i \in 1..Len(handler_sig) :
         LET name == handler_sig[i].name
             a == handler_sig[i].annotation
         IN /\ IsSchema(a) =>
                 /\ name \in BodyKeys
                 /\ BodyItem(name).body_type = PYDANTIC
                 /\ BodyItem(name).model_cls.is_type
                 /\ a.mro \subseteq BodyItem(name).model_cls.mro
            /\ (IsMapping(a) \/ (Untyped(a) /\ name = "body")) =>
                 /\ name \in BodyKeys
                 /\ BodyItem(name).body_type = JSONABLE
            /\ IsFileMarker(a) =>
                 name \in file_params /\ name \notin BodyKeys
    /\ file_params \cap BodyKeys = {}

\* A handler (body: UploadFile, data: SampleModel) is registered.
C16_Witness ==
  /\ router_pc = "idle"
  /\ handler_sig = <<[name |-> "body", annotation |-> UploadFileCls],
                     [name |-> "data", annotation |-> SampleModelCls]>>
  /\ file_params = {"body"}
  /\ BodyKeys = {"data"}

\* C17: of every parameter whose declared type matches none of the file,
\* schema, body-marker and mapping rules: it is in body_config only if it has
\* no declared type and is named exactly `body`, and else it is in neither
\* body_config nor file_params.
C17_NameRuleOnlyForUntyped ==
  router_pc # "unregistered" =>
    \A i \in 1..Len(handler_sig) :
      LET name == handler_sig[i].name
          a == handler_sig[i].annotation
      IN ~(IsFileMarker(a) \/ IsSchema(a) \/ IsBodyMarker(a) \/ IsMapping(a)) =>
           /\ name \in BodyKeys <=> (Untyped(a) /\ name = "body")
           /\ name \notin file_params

\* wrapped_handler has been called with a request.
Served == router_pc \in {"await", "done"}
\* What the request bodies are, told from the texts alone: which are no
\* JSON, which are no SampleModel.
NotJson(raw) == raw.text = NotJsonText
NotSampleModel(raw) == raw.text \in {NotJsonText, MissingFieldText}
\* Item k of body_config cannot be decoded from the keyword arguments of the
\* request: it is there, it is text, and the text is not valid for its
\* classification.
ItemFails(k) ==
  LET item == body_config[k] IN
  /\ item.name \in DOMAIN request.kwargs
  /\ request.kwargs[item.name].type \in {"str", "bytes"}
  /\ \/ item.body_type = PYDANTIC /\ NotSampleModel(request.kwargs[item.name])
     \/ item.body_type = JSONABLE /\ NotJson(request.kwargs[item.name])
\* Body marshaling fails on this request; the file check fails on it.
BodyFails == \E k \in 1..Len(body_config) : ItemFails(k)
FilesFail == file_params # {} /\ DOMAIN request.files = {}
\* The first item of body_config, in mapping order, that fails.
FirstFailing ==
  CHOOSE k \in 1..Len(body_config) :
    ItemFails(k) /\ \A j \in 1..(k - 1) : ~ItemFails(j)
\* The wrapper has returned exactly one response, with status 422.
Returned422 ==
  /\ out.raised = ""
  /\ Len(out.returned) = 1
  /\ out.returned[1].type = "Response"
  /\ out.returned[1].status_code = 422

\* C12: for every request to a wrapped handler: if body marshaling or the
\* file check fails, the wrapper returns exactly one response, a 422, and the
\* handler is never invoked; the handler is invoked, exactly once, only when
\* both steps succeed.
C12_FailureNeverInvokesHandler ==
  Served =>
    /\ handler_calls \in {0, 1}
    /\ (BodyFails \/ FilesFail) => (handler_calls = 0 /\ Returned422)
    /\ handler_calls = 1 <=> ~(BodyFails \/ FilesFail)

\* A request whose bodies decode, to a handler with a file parameter, that
\* carries no files: it got a 422 and the handler was not called.
C12_Witness ==
  /\ router_pc = "done"
  /\ \E k \in 1..Len(body_config) :
       /\ body_config[k].name \in DOMAIN request.kwargs
       /\ request.kwargs[body_config[k].name].type = "str"
  /\ ~BodyFails
  /\ FilesFail
  /\ Returned422
  /\ handler_calls = 0

\* The bodies of the validation-failure responses the claim allows: the
\* validation-error JSON of the schema library and the missing_files object
\* whose `required` lists the file parameters in some order.
ValidationErrorJsons ==
  {"[{\"type\":\"json_invalid\",\"loc\":[],\"msg\":\"Invalid JSON: expected ident at line 1 column 2\"}]",
   "[{\"type\":\"missing\",\"loc\":[\"value\"],\"msg\":\"Field required\"}]"}
MissingFilesBodies ==
  {"{\"error\":\"missing_files\",\"required\":["
     \o Join([k \in 1..Len(order) |-> "\"" \o order[k] \o "\""], 1, ",")
     \o "]}" : order \in Orders(file_params)}

\* C13: every validation-failure response of the request marshaler (a schema
\* validation failure, a JSON decode failure, missing file uploads) has
\* status 422 and a JSON content-type header, and its body is the schema
\* library's validation-error JSON or the missing_files object.
C13_ValidationFailureIsJson422 ==
  Served =>
    \A r \in {body_out.error, files_out.error} :
      r.type = "Response" =>
        /\ r.status_code = 422
        /\ "content-type" \in DOMAIN r.headers
        /\ r.headers["content-type"] = "application/json"
        /\ r.description \in ValidationErrorJsons \cup MissingFilesBodies

\* C14: when parse_request_body returns a 422, the parameter it failed on is
\* the first that fails in mapping order, and every other entry of the
\* keyword map, before or after it, still holds the value it had when
\* marshaling began.
C14_FailureLeavesOthersUntouched ==
  (Served /\ body_out.error.type = "Response") =>
    /\ BodyFails
    /\ DOMAIN body_out.kwargs = DOMAIN request.kwargs
    /\ \A n \in DOMAIN request.kwargs \ {body_config[FirstFailing].name} :
         body_out.kwargs[n] = request.kwargs[n]

\* C14 (amended): when parse_request_body returns a 422, the parameter it
\* failed on is the first that fails in mapping order; that parameter, every
\* entry after it in mapping order and every entry that is not classified
\* still hold the value they had when marshaling began, and an entry before
\* it holds its decoded form if it was text and its old value if not.
C14_FailureStopsAtFirst ==
  (Served /\ body_out.error.type = "Response") =>
    /\ BodyFails
    /\ DOMAIN body_out.kwargs = DOMAIN request.kwargs
    /\ \A n \in DOMAIN request.kwargs :
         LET before == \E j \in 1..(FirstFailing - 1) : body_config[j].name = n
             raw == request.kwargs[n]
             v == body_out.kwargs[n]
         IN IF before /\ raw.type \in {"str", "bytes"}
              THEN v.type \in {"model", "dict"}
              ELSE v = raw

\* Marshaling failed on the second of two classified parameters, the first
\* having been decoded from text.
C14_Witness ==
  /\ Served
  /\ body_out.error.type = "Response"
  /\ Len(body_config) = 2
  /\ FirstFailing = 2
  /\ body_config[1].name \in DOMAIN request.kwargs
  /\ request.kwargs[body_config[1].name].type = "str"
  /\ body_out.kwargs[body_config[1].name].type = "dict"
  /\ body_out.kwargs[body_config[2].name] = request.kwargs[body_config[2].name]

\* C15: whenever parse_request_body returns no error, every classified
\* parameter that is in the keyword map holds its decoded form: an instance
\* of the model for a schema parameter, a JSON-decoded value for a
\* generic-JSON parameter, with the content of the text it was decoded from;
\* none is left as str or bytes.
C15_SuccessMeansDecoded ==
  (Served /\ body_out.error.type # "Response") =>
    \A k \in 1..Len(body_config) :
      LET name == body_config[k].name IN
      name \in DOMAIN request.kwargs =>
        /\ name \in DOMAIN body_out.kwargs
        /\ LET v == body_out.kwargs[name]
               raw == request.kwargs[name]
           IN /\ v.type \notin {"str", "bytes"}
              /\ body_config[k].body_type = PYDANTIC =>
                   v.type = "model" /\ v.cls = "SampleModel"
              /\ body_config[k].body_type = JSONABLE => v.type = "dict"
              /\ (raw.type \in {"str", "bytes"}
                    /\ raw.text = ValidModelText) =>
                   v.items = <<Item(Str("name"), Str("test")),
                               Item(Str("value"), PyInt(42))>>

\* Marshaling succeeded on a request with two classified parameters that
\* both came as text: a schema one, now an instance, and a generic one, now
\* a dict.
C15_Witness ==
  /\ Served
  /\ body_out.error.type # "Response"
  /\ \E j, k \in 1..Len(body_config) :
       /\ body_config[j].body_type = PYDANTIC
       /\ body_config[k].body_type = JSONABLE
       /\ body_config[j].name \in DOMAIN request.kwargs
       /\ body_config[k].name \in DOMAIN request.kwargs
       /\ request.kwargs[body_config[j].name].type = "str"
       /\ request.kwargs[body_config[k].name].type = "str"
       /\ body_out.kwargs[body_config[j].name].type = "model"
       /\ body_out.kwargs[body_config[k].name].type = "dict"

HandlerReturned ==
  router_pc = "done" /\ handler_calls = 1 /\ out.raised # "Exception"

\* C19: parse_response cannot fail: whatever the handler returns (a response,
\* a model, a dict with any keys and values, None, anything else),
\* parse_response returns a response and raises nothing.
C19_ParseResponseNeverFails ==
  HandlerReturned =>
    /\ out.raised = ""
    /\ Len(out.returned) = 1
    /\ out.returned[1].type = "Response"

\* The string forms of the values the handlers return that are no response,
\* model or dict.
StringForm(v) ==
  CASE v = Str("plain text") -> "plain text"
    [] v = PyInt(123) -> "123"
    [] v = NoneValue -> "None"

\* C20: parse_response applies its rules first match wins: a result that is
\* a response is returned as the same object, status, headers and body
\* untouched; a model or a dict becomes a response with status 200 and a
\* JSON content-type; any other value becomes a response with status 200, no
\* content-type header and the value's string form as body.  Every response
\* the handler did not supply has status 200.
C20_FirstMatchWins ==
  HandlerReturned =>
    /\ out.raised = ""
    /\ Len(out.returned) = 1
    /\ LET r == out.returned[1] IN
       /\ r.type = "Response"
       /\ result.type = "Response" => r = result
       /\ result.type \in {"model", "dict"} =>
            /\ r.status_code = 200
            /\ r.headers = JsonHeaders
       /\ result.type \notin {"Response", "model", "dict"} =>
            /\ r.status_code = 200
            /\ "content-type" \notin DOMAIN r.headers
            /\ r.description = StringForm(result)
       /\ r.by # "handler" => r.status_code = 200

\* ------------------------------------------------------ MiddlewareHandler

MaxRoutes == 2
MaxMiddlewares == 2

\* Routes the application gets (main.py: the health router, the upload
\* router) and the OpenAPI document the framework serves: (method, path).
Routes ==
  {<<"GET", "/health">>, <<"POST", "/files/upload">>, <<"GET", "/openapi.json">>}

\* Target sets a middleware declares: none, the one of
\* FileUploadOpenAPIMiddleware, and one naming a path no route has.
TargetSets == {{}, {"/openapi.json"}, {"/health", "/metrics"}}

\* What register() is given: its declared targets, and whether its before
\* and its after are implemented (not marked abstract).  __init_subclass__
\* refuses a class that implements neither.
Middlewares ==
  {m \in [endpoints : TargetSets, has_before : BOOLEAN, has_after : BOOLEAN] :
     m.has_before \/ m.has_after}

\* frozenset(route[1] for route in routes): the paths of the routes
_get_all_routes(routes) == {routes[i][2] : i \in DOMAIN routes}

\* `middleware.endpoints or self._get_all_routes()`: an empty frozenset is
\* falsy.
Targets_all_routes(endpoints, routes) == _get_all_routes(routes)
Targets(endpoints, routes) ==
  IF endpoints # {} THEN endpoints ELSE _get_all_routes(routes)

\* app.include_router / a route decorator: the application gets one more
\* route.
AddRoute(route) ==
  /\ Len(app_routes) < MaxRoutes
  /\ \A i \in DOMAIN app_routes : app_routes[i] # route
  /\ app_routes' = Append(app_routes, route)
  /\ UNCHANGED <<middlewares, before_request, after_request, routes_at_register>>
  /\ UNCHANGED <<lifespan_vars, obj_vars, router_vars>>

\* MiddlewareHandler.register(middleware): append, then _apply_middleware:
\* for each endpoint of the targets, the before hook if there is one and the
\* after hook if there is one.  A hook is identified by the place of its
\* middleware in _middlewares.
MiddlewareRegister(middleware) ==
  /\ Len(middlewares) < MaxMiddlewares
  /\ middlewares' = Append(middlewares, middleware)
  /\ LET endpoints == Targets(middleware.endpoints, app_routes)
         hooks == {[endpoint |-> e, middleware |-> Len(middlewares')] : e \in endpoints}
     IN /\ before_request' = before_request \cup (IF middleware.has_before THEN hooks ELSE {})
        /\ after_request' = after_request \cup (IF middleware.has_after THEN hooks ELSE {})
  /\ routes_at_register' = Append(routes_at_register, app_routes)
  /\ UNCHANGED app_routes
  /\ UNCHANGED <<lifespan_vars, obj_vars, router_vars>>

IncludeRoute == \E route \in Routes : AddRoute(route)
RegisterMiddleware == \E middleware \in Middlewares : MiddlewareRegister(middleware)

NextMiddleware ==
  \/ IncludeRoute
  \/ RegisterMiddleware

SpecMiddleware == Init /\ [][NextMiddleware]_vars

\* The endpoints on which the i-th registered middleware has a hook in the
\* given hook table.
HookedEndpoints(table, i) == {h.endpoint : h \in {x \in table : x.middleware = i}}

\* The paths of the routes registered on the application.
RoutePaths(routes) == {routes[i][2] : i \in DOMAIN routes}

\* C21: at every moment, also after routes were added later, each hook a
\* registered middleware has (before, after) is applied to exactly these
\* endpoints: its declared targets if it declares any, whatever routes
\* exist, and else the paths of the routes the application had at the moment
\* of its register() call.
C21_HooksFixedAtRegister ==
  \A i \in DOMAIN middlewares :
    LET m == middlewares[i]
        expected == IF m.endpoints = {}
                      THEN RoutePaths(routes_at_register[i])
                      ELSE m.endpoints
    IN /\ HookedEndpoints(before_request, i) = (IF m.has_before THEN expected ELSE {})
       /\ HookedEndpoints(after_request, i) = (IF m.has_after THEN expected ELSE {})

\* A middleware without targets was registered while a route existed and a
\* route with another path was added afterwards, which it does not hook; and
\* a middleware with targets hooks a path that no route has.
C21_Witness ==
  \E i, j \in DOMAIN middlewares :
    /\ middlewares[i].endpoints = {}
    /\ HookedEndpoints(before_request, i) # {}
    /\ RoutePaths(app_routes) \ HookedEndpoints(before_request, i) # {}
    /\ middlewares[j].endpoints # {}
    /\ HookedEndpoints(after_request, j) \ RoutePaths(app_routes) # {}

\* ------------------------------------------ parse_request_body on its own

\* body_config as a caller of parse_request_body may build it: a mapping
\* (in insertion order) from parameter names to a classification, which is
\* schema with a model class or without one, generic JSON, or raw.
DirectNames == {"body", "data"}
DirectItems ==
  {item \in [name : DirectNames, body_type : {PYDANTIC, JSONABLE, RAW},
             model_cls : {SampleModelCls, NoClass}] :
     item.model_cls # NoClass => item.body_type = PYDANTIC}
DirectConfigs ==
  {config \in UNION {[1..n -> DirectItems] : n \in 0..MaxParams} :
     \A i, j \in DOMAIN config : config[i].name = config[j].name => i = j}

\* The keyword map it is called with: under a name of DirectNames nothing,
\* a request text, or a value that is no text (a model instance, a dict, a
\* number); under one more name, which no classification has, nothing or a
\* text.
DirectKwargs ==
  LET parsed == {ParsedValue(item) : item \in DirectItems} \cup {PyInt(7)}
      values == RawBodies \cup parsed \cup {OtherValue}
  IN {kw \in UNION {[S -> values] : S \in SUBSET (DirectNames \cup {"other"})} :
        \A n \in DOMAIN kw :
          IF n = "other" THEN kw[n] \in {OtherValue, Bytes(NotJsonText)}
          ELSE kw[n] # OtherValue}

\* error = parse_request_body(body_config, kwargs), called as the tests call
\* it: kwargs is changed in place and the error returned.
ParseRequestBodyCall(config, kwargs) ==
  /\ body_config' = config
  /\ request' = [kwargs |-> kwargs, files |-> EmptyDict]
  /\ body_out' = parse_request_body(config, kwargs)
  /\ router_pc' = "direct"
  /\ UNCHANGED <<FILE_UPLOAD_ENDPOINTS, handler_sig, file_params,
                 has_request_param, files_out, h_kwargs, handler_calls, result, out>>
  /\ UNCHANGED <<lifespan_vars, obj_vars, mw_vars>>

DirectCall ==
  /\ router_pc = "unregistered"
  /\ \E config \in DirectConfigs : \E kwargs \in DirectKwargs :
       ParseRequestBodyCall(config, kwargs)

NextBody == DirectCall

SpecBody == Init /\ [][NextBody]_vars

\* parse_request_body has been called on its own and has returned.
Called == router_pc = "direct"
\* Item k of body_config is one the marshaler has nothing to do for: it is
\* classified raw, or its keyword value is no text, or it has no keyword.
Passive(k) ==
  LET item == body_config[k] IN
  \/ item.body_type = RAW
  \/ item.name \notin DOMAIN request.kwargs
  \/ request.kwargs[item.name].type \notin {"str", "bytes"}
\* A keyword map without the entries of the given names.
Without(kwargs, names) == [n \in (DOMAIN kwargs) \ names |-> kwargs[n]]

\* C22: after parse_request_body(body_config, kwargs): the keyword map has
\* the names it had (no entry is added for an absent parameter); the value
\* of a parameter that is classified raw, or whose value is no text, is what
\* it was; an error, if one is returned, is due to another parameter, one
\* whose text is not valid for its classification, and if all parameters are
\* raw, not text or absent there is no error; entries that no classification
\* names are what they were, and the call without them returns the same error
\* and the same other entries.
C22_PassiveEntriesUntouched ==
  Called =>
    LET before == request.kwargs
        after == body_out.kwargs
        unnamed == (DOMAIN before) \ BodyKeys
        alone == parse_request_body(body_config, Without(before, unnamed))
    IN /\ DOMAIN after = DOMAIN before
       /\ \A k \in 1..Len(body_config) :
            (Passive(k) /\ body_config[k].name \in DOMAIN before) =>
              after[body_config[k].name] = before[body_config[k].name]
       /\ IsTruthy(body_out.error) => \E k \in 1..Len(body_config) :
                                        ~Passive(k) /\ ItemFails(k)
       /\ (\A k \in 1..Len(body_config) : Passive(k)) =>
            body_out.error = NoResponse /\ after = before
       /\ \A n \in unnamed : after[n] = before[n]
       /\ alone.error = body_out.error
       /\ alone.kwargs = Without(after, unnamed)

\* The call of test_raw_body_unchanged with one more parameter, classified
\* schema and absent, a parameter given as a dict already, and an entry that
\* no classification names, holding a text that is no JSON.
C22_Witness ==
  /\ Called
  /\ \E k \in 1..Len(body_config) :
       /\ body_config[k].body_type = RAW
       /\ body_config[k].name \in DOMAIN request.kwargs
       /\ request.kwargs[body_config[k].name] = Bytes(NotJsonText)
  /\ \E k \in 1..Len(body_config) :
       /\ body_config[k].body_type = PYDANTIC
       /\ body_config[k].name \notin DOMAIN body_out.kwargs
  /\ "other" \in DOMAIN body_out.kwargs
  /\ body_out.kwargs["other"] = Bytes(NotJsonText)
  /\ body_out.error = NoResponse

\* ------------------------------------------- release of started resources

\* The entries of the trace at which a shutdown operation was invoked.
ShutdownInvocations == {i \in DOMAIN trace : trace[i].op = "shutdown_begin"}

\* C23: whatever register, runStartup and runShutdown calls were made on the
\* manager, no two invocations of a shutdown operation were given the same
\* resource instance, and no two were made on the same event instance.
C23_ShutdownAtMostOnce ==
  \A i, j \in ShutdownInvocations :
    i # j => /\ trace[i].instance # trace[j].instance
             /\ trace[i].ev # trace[j].ev

\* The entries of the trace of call c with operation op, in order.
EntriesOf(c, op) == SelectSeq(trace, LAMBDA e : e.call = c /\ e.op = op)

\* The call that ended last was a runShutdown, and the call before it a
\* runStartup that failed in the startup operation of some event.
ShutdownAfterFailedStartup ==
  /\ trace # <<>>
  /\ trace[Len(trace)].op \in {"shutdown_return", "shutdown_raise"}
  /\ trace[Len(trace)].call > 1
  /\ EntriesOf(trace[Len(trace)].call - 1, "startup_raise") # <<>>

\* C24: when runStartup has failed at an event and the runShutdown called
\* next has ended: the shutdown operations it invoked are, in this order,
\* those of the events that this startup had started before the failing one
\* and that define shutdown, last started first, each given the instance
\* that its own startup operation had returned (so neither the failed event
\* nor a later one is among them); and the Registry is empty.
C24_PartialStartupReleased ==
  ShutdownAfterFailedStartup =>
    LET c == trace[Len(trace)].call
        all == EntriesOf(c - 1, "startup_end")
        started == SelectSeq(all, LAMBDA e : has_shutdown(e.cls))
        invoked == EntriesOf(c, "shutdown_begin")
        n == Len(started)
    IN /\ Len(invoked) = n
       /\ \A i \in 1..n : /\ invoked[i].ev = started[n - i + 1].ev
                          /\ invoked[i].instance = started[n - i + 1].instance
       /\ trace[Len(trace)].op = "shutdown_return"
       /\ DOMAIN state.data = {}

\* ------------------------------------- one startup and one shutdown, interleaved

\* The operations the trace holds an entry of.
Ops == {trace[i].op : i \in DOMAIN trace}

\* _startup and _shutdown are coroutines of one event loop and nothing in
\* them keeps one from being started while the other is suspended in an
\* `await`: here runStartup is invoked once and runShutdown once, after
\* runStartup has begun, possibly while it is suspended in an event's startup
\* operation; between two awaits a coroutine runs alone.
ConcurrentRegister ==
  /\ "startup_call" \notin Ops
  /\ \E cls \in EventClasses : Register(cls)
ConcurrentStartup ==
  /\ "startup_call" \notin Ops
  /\ StartupCall
ConcurrentShutdown ==
  /\ "startup_call" \in Ops
  /\ "shutdown_call" \notin Ops
  /\ ShutdownCall

NextConcurrent ==
  \/ ConcurrentRegister
  \/ ConcurrentStartup
  \/ ConcurrentShutdown
  \/ StartupEventReturn
  \/ StartupEventRaise
  \/ ShutdownEventReturn
  \/ ShutdownEventRaise

SpecConcurrent == Init /\ [][NextConcurrent]_vars

\* C25: once the one runStartup and the one runShutdown have both returned
\* without error, however they were interleaved, every event whose startup
\* operation completed and that defines shutdown has had its shutdown
\* operation invoked, and the Registry is empty.
C25_InterleavedShutdownReleasesAll ==
  ({"startup_return", "shutdown_return"} \subseteq Ops) =>
    /\ \A i \in DOMAIN trace :
         (trace[i].op = "startup_end" /\ has_shutdown(trace[i].cls)) =>
           \E j \in DOMAIN trace : /\ trace[j].op = "shutdown_begin"
                                   /\ trace[j].ev = trace[i].ev
    /\ DOMAIN state.data = {}
====
